---- MODULE Spec2Model ----
(***************************************************************************)
(* Vectorized method call recording (enoki/vcall.h): collect_indices,      *)
(* write_indices, vcall_jit_record_impl and vcall_jit_record, run against  *)
(* a JIT backend that owns a side-effect counter, a diagnostic-prefix      *)
(* stack, a mask stack, the PostponeSideEffects flag, the instance         *)
(* registry and the list of jump-table (vcall) nodes.                      *)
(***************************************************************************)
EXTENDS Integers, Sequences, FiniteSets, TLC

\* ------------------------------------------------------------------ bounds
\* Highest id the registry has assigned (jit_registry_get_max).
MaxId == 3
\* Largest number of lanes of the self selector.
MaxLanes == 2
\* Side effects already scheduled when the call is entered.
InitSE == 1
\* Side effects one invocation of the callback schedules, when it schedules any.
MaxFuncSE == 1

\* ------------------------------------------------------------------ values
\* A value of the call: its static kind, the trace-variable reference of a
\* flat JIT array (0 = uninitialized), the per-lane contents when they are
\* known at recording time, and the children of a container.
Jit(index, data) == [kind |-> "jit", index |-> index, data |-> data, kids |-> <<>>]
Plain == [kind |-> "plain", index |-> 0, data |-> <<>>, kids |-> <<>>]
Nested(entries) == [kind |-> "nested", index |-> 0, data |-> <<>>, kids |-> entries]
Diff(detached) == [kind |-> "diff", index |-> 0, data |-> <<>>, kids |-> <<detached>>]
Struct(fields) == [kind |-> "struct", index |-> 0, data |-> <<>>, kids |-> fields]

\* The accumulator of collect_indices: the list, and whether enoki_raise fired.
NoIndices == [ok |-> TRUE, idx |-> <<>>]

RECURSIVE collect_indices(_, _)
RECURSIVE collect_entries(_, _, _)

\* The loop over value.derived().entry(i) / apply_1 over the fields.
collect_entries(indices, entries, i) ==
    IF i > Len(entries) \/ ~indices.ok
    THEN indices
    ELSE collect_entries(collect_indices(indices, entries[i]), entries, i + 1)

collect_indices_leaf_unchecked(indices, value) ==
    [ok |-> TRUE, idx |-> Append(indices.idx, value.index)]

\* A reference already in the list is not appended again.
collect_indices_leaf_dedup(indices, value) ==
    IF value.index = 0
    THEN [ok |-> FALSE, idx |-> indices.idx]
    ELSE IF \E k \in 1..Len(indices.idx) : indices.idx[k] = value.index
    THEN indices
    ELSE [ok |-> TRUE, idx |-> Append(indices.idx, value.index)]

\* is_jit_array_v branch: the zero reference raises, any other is appended.
collect_indices_leaf(indices, value) ==
    IF value.index = 0
    THEN [ok |-> FALSE, idx |-> indices.idx]
    ELSE [ok |-> TRUE, idx |-> Append(indices.idx, value.index)]

collect_indices(indices, value) ==
    IF ~indices.ok THEN indices
    ELSE IF value.kind = "nested" THEN collect_entries(indices, value.kids, 1)
    ELSE IF value.kind = "diff" THEN collect_indices(indices, value.kids[1])
    ELSE IF value.kind = "jit" THEN collect_indices_leaf(indices, value)
    ELSE IF value.kind = "struct" THEN collect_entries(indices, value.kids, 1)
    ELSE indices

\* The fold (collect_indices(indices_in, args), ...) over the arguments.
collect_args(args) == collect_entries(NoIndices, args, 1)

\* The cursor of write_indices: the value rebuilt so far, the offset, and
\* whether indices[offset] was read at or past the end of the vector.
RECURSIVE write_indices(_, _, _)
RECURSIVE write_entries(_, _, _, _, _)

\* The cursor handed to every entry by value: each starts where the first did.
RECURSIVE write_entries_by_value(_, _, _, _, _)
write_entries_by_value(indices, entries, i, done, cur) ==
    IF i > Len(entries)
    THEN [value |-> done, offset |-> cur.offset, oob |-> cur.oob]
    ELSE LET w == write_indices(indices, entries[i], cur)
         IN  write_entries_by_value(indices, entries, i + 1, Append(done, w.value), cur)

write_entries(indices, entries, i, done, cur) ==
    IF i > Len(entries)
    THEN [value |-> done, offset |-> cur.offset, oob |-> cur.oob]
    ELSE LET w == write_indices(indices, entries[i], cur)
         IN  write_entries(indices, entries, i + 1, Append(done, w.value), w)

\* No is_diff_array_v branch: a differentiable array is left as it was.
write_indices_no_diff(indices, value, cur) ==
    IF value.kind \in {"nested", "struct"}
    THEN LET w == write_entries(indices, value.kids, 1, <<>>, cur)
         IN  [value |-> [value EXCEPT !.kids = w.value], offset |-> w.offset, oob |-> w.oob]
    ELSE IF value.kind = "jit"
    THEN IF cur.offset < Len(indices)
         THEN [value |-> [value EXCEPT !.index = indices[cur.offset + 1]],
               offset |-> cur.offset + 1, oob |-> cur.oob]
         ELSE [value |-> [value EXCEPT !.index = 0], offset |-> cur.offset + 1, oob |-> TRUE]
    ELSE [value |-> value, offset |-> cur.offset, oob |-> cur.oob]

write_indices(indices, value, cur) ==
    IF value.kind \in {"nested", "struct", "diff"}
    THEN LET w == write_entries(indices, value.kids, 1, <<>>, cur)
         IN  [value |-> [value EXCEPT !.kids = w.value], offset |-> w.offset, oob |-> w.oob]
    ELSE IF value.kind = "jit"
    THEN IF cur.offset < Len(indices)
         THEN [value |-> [value EXCEPT !.index = indices[cur.offset + 1]],
               offset |-> cur.offset + 1, oob |-> cur.oob]
         ELSE [value |-> [value EXCEPT !.index = 0], offset |-> cur.offset + 1, oob |-> TRUE]
    ELSE [value |-> value, offset |-> cur.offset, oob |-> cur.oob]

\* ------------------------------------------------------------ result types
\* The Result template parameter: std::nullptr_t (no return value), one flat
\* JIT array, or an aggregate of a JIT array, a plain scalar and a
\* differentiable array.
ResultTypes == {"void", "leaf", "struct"}

ResultOf(type, idx, data) ==
    IF type = "void" THEN Plain
    ELSE IF type = "leaf" THEN Jit(idx[1], data[1])
    ELSE Struct(<<Jit(idx[1], data[1]), Plain, Diff(Jit(idx[2], data[2]))>>)

NumLeaves(type) == IF type = "void" THEN 0 ELSE IF type = "leaf" THEN 1 ELSE 2

\* "Result result;": every JIT leaf default-constructed, reference 0.
DefaultResult(type) == ResultOf(type, <<0, 0>>, << <<>>, <<>> >>)

Zeros(n) == [l \in 1..n |-> 0]
AllTrue(n) == [l \in 1..n |-> TRUE]

\* zero<Result>(size): literal zero arrays of `size` lanes, references
\* first+1, first+2 in traversal order.
zero(type, size, first) == ResultOf(type, <<first + 1, first + 2>>, <<Zeros(size), Zeros(size)>>)

\* select(mask, t, f), leaf by leaf; the new variables are numbered after the
\* operands' (shift).
RECURSIVE select(_, _, _, _)
select(m, t, f, shift) ==
    IF t.kind = "jit"
    THEN Jit(t.index + shift, [l \in 1..Len(m) |-> IF m[l] THEN t.data[l] ELSE f.data[l]])
    ELSE IF t.kids # <<>>
    THEN [t EXCEPT !.kids = [k \in 1..Len(t.kids) |-> select(m, t.kids[k], f.kids[k], shift)]]
    ELSE t

\* ------------------------------------------------------------------- state
VARIABLES
    Backend,        \* JitBackend of the Self type: "LLVM" or "CUDA"
    ResultType,     \* the Result template parameter
    registry,       \* id -> is a live instance registered under it
    side_effects,   \* jit_side_effects_scheduled(Backend)
    prefix,         \* the diagnostic-prefix stack, top last
    mask_stack,     \* the mask stack, top last
    flag,           \* jit_flag(JitFlag::PostponeSideEffects)
    vcalls,         \* the jump-table nodes jit_var_vcall has created
    var_counter,    \* the last trace-variable reference handed out
    self,           \* the selector, per lane (0 = nullptr)
    mask,           \* extract_mask(args...), per lane
    args,           \* placeholder(args)..., without the mask slot
    pc,             \* position inside vcall_jit_record / vcall_jit_record_impl
    n_inst_max, n_inst_actual, inst,
    i, j, se_count, indices_in, indices_out_all, flag_before, label,
    tmp,            \* the value func returned
    result,         \* the value record_call returns
    error,          \* what was raised out of the call ("none" when nothing)
    entry,          \* the backend state when the call was entered
    calls,          \* the invocations of func, in order
    se_after_func,  \* side_effects when each invocation of func returned
    mask_pushes, mask_pops, \* jit_var_mask_push / jit_var_mask_pop issued
    offset, oob,    \* the cursor of write_indices; a read at or past the end
    nested          \* record_call from inside a callback: the suspended recorder frames, the calls made

backend_vars == <<Backend, registry, side_effects, prefix, mask_stack, flag, vcalls, var_counter>>
input_vars == <<ResultType, self, mask, args, entry>>
local_vars == <<n_inst_max, n_inst_actual, inst, i, j, se_count, indices_in,
                indices_out_all, flag_before, label, tmp, result>>
ghost_vars == <<calls, se_after_func, mask_pushes, mask_pops>>
write_vars == <<offset, oob>>
vars == <<backend_vars, input_vars, local_vars, ghost_vars, write_vars, nested, pc, error>>

Lanes == UNION {[1..n -> 0..1] : n \in 0..MaxLanes}
Masks(n) == [1..n -> BOOLEAN]

\* Argument lists of a call site: nested arrays, a repeated reference, a
\* plain scalar, a differentiable array, an aggregate; two of them hold an
\* array that was never assigned (reference 0).
ArgLists ==
    { <<Nested(<<Jit(4, <<>>), Jit(4, <<>>)>>), Plain, Struct(<<Diff(Jit(5, <<>>)), Plain>>)>>,
      <<Jit(4, <<>>), Struct(<<Plain, Diff(Jit(0, <<>>))>>)>>,
      <<Jit(0, <<>>)>> }

\* A mask the caller's context has pushed: true in the odd lanes.
ExternalMask(n) == [index |-> 3, data |-> [l \in 1..n |-> l % 2 = 1], origin |-> "external"]
OuterLabel == [site |-> "outer", instance |-> 0]

Init ==
    /\ Backend \in {"LLVM", "CUDA"}
    /\ ResultType \in ResultTypes
    /\ registry \in [1..MaxId -> BOOLEAN]
    /\ side_effects = InitSE
    /\ prefix = <<OuterLabel>>
    /\ flag \in {0, 1}
    /\ self \in Lanes
    /\ mask \in Masks(Len(self))
    /\ mask_stack \in {<<>>, <<ExternalMask(Len(self))>>}
    /\ args \in ArgLists
    /\ vcalls = <<>>
    /\ var_counter = 5
    /\ pc = "call"
    /\ n_inst_max = 0 /\ n_inst_actual = 0 /\ inst = 0
    /\ i = 0 /\ j = 0 /\ se_count = <<>>
    /\ indices_in = <<>> /\ indices_out_all = <<>>
    /\ flag_before = 0 /\ label = OuterLabel
    /\ tmp = Plain /\ result = Plain
    /\ error = "none"
    /\ entry = [side_effects |-> side_effects, prefix |-> prefix,
                mask_stack |-> mask_stack, flag |-> flag, registry |-> registry]
    /\ calls = <<>> /\ se_after_func = <<>>
    /\ mask_pushes = 0 /\ mask_pops = 0
    /\ offset = 0 /\ oob = FALSE
    /\ nested = [frames |-> <<>>, made |-> 0]

\* ------------------------------------------------------- vcall_jit_record
jit_registry_get_max == MaxId
jit_registry_get_ptr(id) == registry[id]

\* The scan of ids 1..n_inst_max: the number of live instances and the last
\* live one (0 = nullptr).
RECURSIVE scan_registry(_, _, _)
scan_registry(id, last, n) ==
    IF id > jit_registry_get_max THEN [inst |-> last, n_inst_actual |-> n]
    ELSE IF ~jit_registry_get_ptr(id) THEN scan_registry(id + 1, last, n)
    ELSE scan_registry(id + 1, id, n + 1)

returns_zero_ignoring_size(n, self_size) == n = 0
\* if (n_inst_actual == 0 || self_size == 0) return zero<Result>(self_size);
returns_zero(n, self_size) == n = 0 \/ self_size = 0

vcall_jit_record ==
    /\ pc = "call"
    /\ LET scan == scan_registry(1, 0, 0)
           self_size == Len(self)
       IN  /\ n_inst_max' = jit_registry_get_max
           /\ n_inst_actual' = scan.n_inst_actual
           /\ inst' = scan.inst
           /\ IF returns_zero(scan.n_inst_actual, self_size)
              THEN /\ result' = zero(ResultType, self_size, var_counter)
                   /\ var_counter' = var_counter + NumLeaves(ResultType)
                   /\ pc' = "done"
              ELSE /\ pc' = "impl"
                   /\ result' = DefaultResult(ResultType)
                   /\ UNCHANGED var_counter
    /\ UNCHANGED <<Backend, registry, side_effects, prefix, mask_stack, flag, vcalls>>
    /\ UNCHANGED <<input_vars, write_vars, nested, ghost_vars, error>>
    /\ UNCHANGED <<i, j, se_count, indices_in, indices_out_all, flag_before, label, tmp>>

\* ------------------------------------------------------------ the callback
\* What func(base, args...) returns for implementation `id`: a Result whose
\* JIT leaves are new trace variables (first+1, first+2), lane l of each
\* holding 10*id + l; `bad` is the position of a leaf it left
\* uninitialized (0 = none).
func_value(type, id, n, first, bad) ==
    ResultOf(type,
             <<IF bad = 1 THEN 0 ELSE first + 1, IF bad = 2 THEN 0 ELSE first + 2>>,
             <<[l \in 1..n |-> 10 * id + l], [l \in 1..n |-> 10 * id + l]>>)

\* func returns after scheduling k side effects. In the fast path its value
\* is fully initialized (it goes straight into select).
func_returns ==
    /\ pc \in {"single_func", "in_func"}
    /\ \E k \in {0, MaxFuncSE}, bad \in 0..NumLeaves(ResultType) :
          /\ pc = "single_func" => bad = 0
          /\ side_effects' = side_effects + k
          /\ se_after_func' = Append(se_after_func, side_effects + k)
          /\ tmp' = func_value(ResultType, calls[Len(calls)].inst, Len(self), var_counter, bad)
    /\ var_counter' = var_counter + NumLeaves(ResultType)
    /\ pc' = IF pc = "single_func" THEN "single_ret" ELSE "try_collect"
    /\ UNCHANGED <<Backend, registry, prefix, mask_stack, flag, vcalls>>
    /\ UNCHANGED <<input_vars, write_vars, nested, calls, mask_pushes, mask_pops, error>>
    /\ UNCHANGED <<n_inst_max, n_inst_actual, inst, i, j, se_count, indices_in,
                   indices_out_all, flag_before, label, result>>

\* func raises after scheduling k side effects: out of the call in the fast
\* path, into the catch block in the recorder.
func_raises ==
    /\ pc \in {"single_func", "in_func"}
    /\ \E k \in {0, MaxFuncSE} : side_effects' = side_effects + k
    /\ pc' = IF pc = "single_func" THEN "error" ELSE "catch"
    /\ error' = "branch"
    /\ UNCHANGED <<Backend, registry, prefix, mask_stack, flag, vcalls, var_counter>>
    /\ UNCHANGED <<input_vars, write_vars, nested, local_vars, ghost_vars>>

\* ------------------------------------------- vcall_jit_record_impl, 1 instance
\* Mask mask2 = mask && neq(self, nullptr)
combined_mask_no_neq(m, s) == m
combined_mask(m, s) == [l \in 1..Len(s) |-> m[l] /\ s[l] # 0]

\* func(inst, set_mask<Is, N>(mask2, args)...)
single_instance_call ==
    /\ pc = "impl"
    /\ n_inst_actual = 1
    /\ calls' = Append(calls, [inst |-> inst, mask |-> combined_mask(mask, self), j |-> 0])
    /\ pc' = "single_func"
    /\ UNCHANGED <<backend_vars, input_vars, write_vars, nested, local_vars, error>>
    /\ UNCHANGED <<se_after_func, mask_pushes, mask_pops>>

\* result = select(mask2, <value of func>, zero<Result>()); nothing for void.
single_instance_select ==
    /\ pc = "single_ret"
    /\ result' = IF ResultType = "void" THEN result
                 ELSE select(combined_mask(mask, self), tmp,
                             zero(ResultType, Len(self), var_counter),
                             2 * NumLeaves(ResultType))
    /\ var_counter' = var_counter + 2 * NumLeaves(ResultType)
    /\ pc' = "done"
    /\ UNCHANGED <<Backend, registry, side_effects, prefix, mask_stack, flag, vcalls>>
    /\ UNCHANGED <<input_vars, write_vars, nested, ghost_vars, error>>
    /\ UNCHANGED <<n_inst_max, n_inst_actual, inst, i, j, se_count, indices_in,
                   indices_out_all, flag_before, label, tmp>>

\* ------------------------------------------ vcall_jit_record_impl, recorder
\* ek_vector<uint32_t> se_count(n_inst_actual + 1, 0); collect_indices over
\* the arguments; se_count[0] = jit_side_effects_scheduled(Backend).
\* (se_count[k] of the code is se_count[k + 1] here.)
recorder_begin ==
    /\ pc = "impl"
    /\ n_inst_actual # 1
    /\ LET c == collect_args(args)
       IN  IF c.ok
           THEN /\ indices_in' = c.idx
                /\ se_count' = [[k \in 1..(n_inst_actual + 1) |-> 0] EXCEPT ![1] = side_effects]
                /\ i' = 1 /\ j' = 1
                /\ pc' = "loop"
                /\ UNCHANGED error
           ELSE /\ pc' = "error"
                /\ error' = "uninitialized"
                /\ UNCHANGED <<indices_in, se_count, i, j>>
    /\ UNCHANGED <<backend_vars, input_vars, write_vars, nested, ghost_vars>>
    /\ UNCHANGED <<n_inst_max, n_inst_actual, inst, indices_out_all, flag_before, label, tmp, result>>

instance_label_registry_id(jj) == [site |-> "VCall", instance |-> i]
\* snprintf(label, ..., "VCall: %s::%s() [instance %u]", Base::Domain, name, j)
instance_label(jj) == [site |-> "VCall", instance |-> jj]

base_is_null_never(id) == FALSE
\* Base *base = jit_registry_get_ptr(Base::Domain, i); if (!base) continue;
base_is_null(id) == ~jit_registry_get_ptr(id)

\* The head of one loop iteration: the label, the lookup, and for a live id
\* jit_prefix_push and flag_before = jit_flag(PostponeSideEffects).
loop_next ==
    /\ pc = "loop"
    /\ i <= n_inst_max
    /\ label' = instance_label(j)
    /\ IF base_is_null(i)
       THEN /\ i' = i + 1
            /\ UNCHANGED <<prefix, flag_before, pc>>
       ELSE /\ prefix' = Append(prefix, instance_label(j))
            /\ flag_before' = flag
            /\ pc' = "try_flag"
            /\ UNCHANGED i
    /\ UNCHANGED <<Backend, registry, side_effects, mask_stack, flag, vcalls, var_counter>>
    /\ UNCHANGED <<input_vars, write_vars, nested, ghost_vars, error>>
    /\ UNCHANGED <<n_inst_max, n_inst_actual, inst, j, se_count, indices_in,
                   indices_out_all, tmp, result>>

\* jit_set_flag(JitFlag::PostponeSideEffects, 1)
set_flag ==
    /\ pc = "try_flag"
    /\ flag' = 1
    /\ pc' = IF Backend = "LLVM" THEN "try_mask" ELSE "try_func"
    /\ UNCHANGED <<Backend, registry, side_effects, prefix, mask_stack, vcalls, var_counter>>
    /\ UNCHANGED <<input_vars, write_vars, nested, local_vars, ghost_vars, error>>

\* The backend raises inside jit_set_flag: the flag is not changed.
set_flag_raises ==
    /\ pc = "try_flag"
    /\ pc' = "catch"
    /\ error' = "branch"
    /\ UNCHANGED <<backend_vars, input_vars, write_vars, nested, local_vars, ghost_vars>>

\* Mask vcall_mask = Mask::steal(jit_var_new_stmt(... "or %mask, zeroinitializer"));
\* jit_var_mask_push(Backend, vcall_mask.index(), 0)
mask_push ==
    /\ pc = "try_mask"
    /\ var_counter' = var_counter + 1
    /\ mask_stack' = Append(mask_stack, [index |-> var_counter + 1,
                                         data |-> AllTrue(Len(self)), origin |-> "vcall"])
    /\ mask_pushes' = mask_pushes + 1
    /\ pc' = "try_func"
    /\ UNCHANGED <<Backend, registry, side_effects, prefix, flag, vcalls>>
    /\ UNCHANGED <<input_vars, write_vars, nested, local_vars, calls, se_after_func, mask_pops, error>>

\* The backend raises inside jit_var_new_stmt: no variable, nothing pushed.
new_stmt_raises ==
    /\ pc = "try_mask"
    /\ pc' = "catch"
    /\ error' = "branch"
    /\ UNCHANGED <<backend_vars, input_vars, write_vars, nested, local_vars, ghost_vars>>

\* The mask slot func receives: set_mask<Is, N>(true, args) for a void
\* Result, the arguments as passed for any other.
func_mask(type) == IF type = "void" THEN AllTrue(Len(self)) ELSE mask

\* func(base, ...) is entered for the instance of id i.
invoke_func ==
    /\ pc = "try_func"
    /\ calls' = Append(calls, [inst |-> i, mask |-> func_mask(ResultType), j |-> j])
    /\ pc' = "in_func"
    /\ UNCHANGED <<backend_vars, input_vars, write_vars, nested, local_vars, error>>
    /\ UNCHANGED <<se_after_func, mask_pushes, mask_pops>>

\* Result tmp = func(base, args...); collect_indices(indices_out_all, tmp)
collect_outputs ==
    /\ pc = "try_collect"
    /\ LET c == IF ResultType = "void" THEN [ok |-> TRUE, idx |-> indices_out_all]
                ELSE collect_indices([ok |-> TRUE, idx |-> indices_out_all], tmp)
       IN  /\ indices_out_all' = c.idx
           /\ pc' = IF c.ok THEN "iter_end" ELSE "catch"
           /\ error' = IF c.ok THEN error ELSE "branch"
    /\ UNCHANGED <<backend_vars, input_vars, write_vars, nested, ghost_vars>>
    /\ UNCHANGED <<n_inst_max, n_inst_actual, inst, i, j, se_count, indices_in,
                   flag_before, label, tmp, result>>

jit_prefix_pop(stack) == IF stack = <<>> THEN <<>> ELSE SubSeq(stack, 1, Len(stack) - 1)
jit_var_mask_pop(stack) == IF stack = <<>> THEN <<>> ELSE SubSeq(stack, 1, Len(stack) - 1)

restore_flag_clear(before) == 0
\* jit_set_flag(JitFlag::PostponeSideEffects, flag_before)
restore_flag(before) == before

prefix_after_iteration_keep(stack) == stack
\* jit_prefix_pop(Backend) on both ways out of the iteration
prefix_after_iteration(stack) == jit_prefix_pop(stack)

se_count_index_stuck(jj) == jj
\* se_count[j++]: the entry written is j, then j is advanced.
se_count_next(jj) == jj + 1

\* The normal end of an iteration (after the try block).
iteration_end ==
    /\ pc = "iter_end"
    /\ j < Len(se_count)
    /\ flag' = restore_flag(flag_before)
    /\ prefix' = prefix_after_iteration(prefix)
    /\ IF Backend = "LLVM"
       THEN /\ mask_stack' = jit_var_mask_pop(mask_stack)
            /\ mask_pops' = mask_pops + 1
       ELSE UNCHANGED <<mask_stack, mask_pops>>
    /\ se_count' = [se_count EXCEPT ![j + 1] = side_effects]
    /\ j' = se_count_next(j)
    /\ i' = i + 1
    /\ pc' = "loop"
    /\ UNCHANGED <<Backend, registry, side_effects, vcalls, var_counter>>
    /\ UNCHANGED <<input_vars, write_vars, nested, calls, se_after_func, mask_pushes, error>>
    /\ UNCHANGED <<n_inst_max, n_inst_actual, inst, indices_in, indices_out_all,
                   flag_before, label, tmp, result>>

rollback_target_branch(count, jj) == count[jj]
\* jit_side_effects_rollback(Backend, se_count[0])
rollback_target(count, jj) == count[1]

catch_exit_swallowed == "loop"
\* "throw;" at the end of the catch block: the error leaves the call.
catch_exit == "error"

\* catch (...) { ... throw; }
catch_block ==
    /\ pc = "catch"
    /\ prefix' = prefix_after_iteration(prefix)
    /\ side_effects' = rollback_target(se_count, j)
    /\ flag' = restore_flag(flag_before)
    /\ IF Backend = "LLVM"
       THEN /\ mask_stack' = jit_var_mask_pop(mask_stack)
            /\ mask_pops' = mask_pops + 1
       ELSE UNCHANGED <<mask_stack, mask_pops>>
    /\ pc' = catch_exit
    /\ UNCHANGED <<Backend, registry, vcalls, var_counter>>
    /\ UNCHANGED <<input_vars, write_vars, nested, local_vars, calls, se_after_func, mask_pushes, error>>

\* jit_var_mask_peek(Backend): the mask on top of the stack, all lanes true
\* when the stack is empty.
jit_var_mask_peek == IF mask_stack = <<>> THEN AllTrue(Len(self)) ELSE mask_stack[Len(mask_stack)].data

self_masked_without_peek == [l \in 1..Len(self) |-> IF mask[l] THEN self[l] ELSE 0]
\* Self self_masked = self & (Mask::steal(jit_var_mask_peek(Backend)) & mask)
self_masked == [l \in 1..Len(self) |-> IF jit_var_mask_peek[l] /\ mask[l] THEN self[l] ELSE 0]

indices_out_size_total(total, n) == total
\* ek_vector<uint32_t> indices_out(indices_out_all.size() / n_inst_actual, 0)
indices_out_size(total, n) == total \div n

\* After the loop: jit_var_vcall creates the node and fills indices_out with
\* new variables; write_indices installs them in the result.
build_vcall ==
    /\ pc = "loop"
    /\ i > n_inst_max
    /\ LET size == indices_out_size(Len(indices_out_all), n_inst_actual)
           indices_out == [k \in 1..size |-> var_counter + 1 + k]
           w == write_indices(indices_out, result, [offset |-> 0, oob |-> FALSE])
       IN  /\ vcalls' = Append(vcalls,
                  [label |-> [site |-> "call", instance |-> 0],
                   self |-> self_masked, n_inst |-> n_inst_actual,
                   indices_in |-> indices_in, indices_out_all |-> indices_out_all,
                   se_count |-> se_count, n_out |-> size, indices_out |-> indices_out])
           /\ var_counter' = var_counter + 1 + size
           /\ result' = IF ResultType = "void" THEN result ELSE w.value
           /\ offset' = IF ResultType = "void" THEN offset ELSE w.offset
           /\ oob' = IF ResultType = "void" THEN oob ELSE w.oob
    /\ label' = [site |-> "call", instance |-> 0]
    /\ pc' = "done"
    /\ UNCHANGED <<Backend, registry, side_effects, prefix, mask_stack, flag>>
    /\ UNCHANGED <<input_vars, nested, ghost_vars, error>>
    /\ UNCHANGED <<n_inst_max, n_inst_actual, inst, i, j, se_count, indices_in,
                   indices_out_all, flag_before, tmp>>

\* The backend raises inside jit_var_vcall (outside every try block).
vcall_raises ==
    /\ pc = "loop"
    /\ i > n_inst_max
    /\ var_counter' = var_counter + 1
    /\ label' = [site |-> "call", instance |-> 0]
    /\ pc' = "error"
    /\ error' = "vcall"
    /\ UNCHANGED <<Backend, registry, side_effects, prefix, mask_stack, flag, vcalls>>
    /\ UNCHANGED <<input_vars, write_vars, nested, ghost_vars>>
    /\ UNCHANGED <<n_inst_max, n_inst_actual, inst, i, j, se_count, indices_in,
                   indices_out_all, flag_before, tmp, result>>

Next ==
    \/ vcall_jit_record
    \/ single_instance_call
    \/ single_instance_select
    \/ func_returns
    \/ func_raises
    \/ recorder_begin
    \/ loop_next
    \/ set_flag
    \/ set_flag_raises
    \/ mask_push
    \/ new_stmt_raises
    \/ invoke_func
    \/ collect_outputs
    \/ iteration_end
    \/ catch_block
    \/ build_vcall
    \/ vcall_raises

Spec == Init /\ [][Next]_vars

TypeOK == pc \in {"call", "impl", "single_func", "single_ret", "loop", "try_flag", "try_mask",
                  "try_func", "in_func", "try_collect", "iter_end", "catch", "done", "error"}

\* ------------------------------------ the registry changing under the recorder
\* The callback registers an implementation; it receives an id that is free.
register_instance ==
    /\ pc = "in_func"
    /\ \E id \in 1..MaxId :
          /\ ~registry[id]
          /\ registry' = [registry EXCEPT ![id] = TRUE]
    /\ UNCHANGED <<Backend, side_effects, prefix, mask_stack, flag, vcalls, var_counter>>
    /\ UNCHANGED <<input_vars, write_vars, nested, local_vars, ghost_vars, pc, error>>

\* The callback removes an implementation: its id becomes a gap.
remove_instance ==
    /\ pc = "in_func"
    /\ \E id \in 1..MaxId :
          /\ registry[id]
          /\ registry' = [registry EXCEPT ![id] = FALSE]
    /\ UNCHANGED <<Backend, side_effects, prefix, mask_stack, flag, vcalls, var_counter>>
    /\ UNCHANGED <<input_vars, write_vars, nested, local_vars, ghost_vars, pc, error>>

\* se_count[j++] = ... with j past the last entry of the vector: a write
\* outside the allocation, after which nothing is known about the program.
se_count_overflow ==
    /\ pc = "iter_end"
    /\ j >= Len(se_count)
    /\ pc' = "undefined"
    /\ UNCHANGED <<backend_vars, input_vars, write_vars, nested, local_vars, ghost_vars, error>>

NextReg ==
    \/ Next
    \/ register_instance
    \/ remove_instance
    \/ se_count_overflow

\* The calls of Init made outside any mask scope, with the flag clear and
\* every lane active.
InitReg ==
    /\ Init
    /\ flag = 0
    /\ mask_stack = <<>>
    /\ mask = AllTrue(Len(self))

SpecReg == InitReg /\ [][NextReg]_vars

\* ------------------------------------------- record_call from inside a callback
\* Largest number of record_call made from inside callbacks during one call.
MaxNested == 1

\* The callback of the running iteration makes a record_call of its own (the
\* same call site, the same arguments): the recorder's locals stay in its
\* frame, together with what the backend state was at that moment, and a new
\* vcall_jit_record starts on the shared backend state.
nested_call ==
    /\ pc = "in_func"
    /\ nested.made < MaxNested
    /\ nested' = [made |-> nested.made + 1, frames |-> Append(nested.frames,
          [n_inst_max |-> n_inst_max, n_inst_actual |-> n_inst_actual, inst |-> inst,
           i |-> i, j |-> j, se_count |-> se_count, indices_in |-> indices_in,
           indices_out_all |-> indices_out_all, flag_before |-> flag_before,
           label |-> label, tmp |-> tmp, result |-> result, calls |-> calls,
           side_effects |-> side_effects, prefix |-> prefix,
           mask_stack |-> mask_stack, flag |-> flag])]
    /\ pc' = "call"
    /\ n_inst_max' = 0 /\ n_inst_actual' = 0 /\ inst' = 0
    /\ i' = 0 /\ j' = 0 /\ se_count' = <<>>
    /\ indices_in' = <<>> /\ indices_out_all' = <<>>
    /\ flag_before' = 0 /\ tmp' = Plain /\ result' = Plain
    /\ UNCHANGED <<backend_vars, input_vars, write_vars, ghost_vars, label, error>>

\* The locals of the suspended recorder are those of its frame again.
resume_frame(f) ==
    /\ n_inst_max' = f.n_inst_max /\ n_inst_actual' = f.n_inst_actual /\ inst' = f.inst
    /\ i' = f.i /\ j' = f.j /\ se_count' = f.se_count
    /\ indices_in' = f.indices_in /\ indices_out_all' = f.indices_out_all
    /\ flag_before' = f.flag_before /\ label' = f.label
    /\ tmp' = f.tmp /\ result' = f.result /\ calls' = f.calls
    /\ nested' = [nested EXCEPT !.frames = SubSeq(nested.frames, 1, Len(nested.frames) - 1)]

\* The nested record_call returns into the callback.
nested_returns ==
    /\ pc = "done"
    /\ nested.frames # <<>>
    /\ resume_frame(nested.frames[Len(nested.frames)])
    /\ pc' = "in_func"
    /\ UNCHANGED <<backend_vars, input_vars, write_vars, se_after_func, mask_pushes, mask_pops, error>>

\* The nested record_call raises and the callback catches the error.
nested_error_caught ==
    /\ pc = "error"
    /\ nested.frames # <<>>
    /\ resume_frame(nested.frames[Len(nested.frames)])
    /\ pc' = "in_func"
    /\ error' = "none"
    /\ UNCHANGED <<backend_vars, input_vars, write_vars, se_after_func, mask_pushes, mask_pops>>

\* The nested record_call raises and the callback lets the error through:
\* func raises into the catch block of the suspended recorder.
nested_error_propagates ==
    /\ pc = "error"
    /\ nested.frames # <<>>
    /\ resume_frame(nested.frames[Len(nested.frames)])
    /\ pc' = "catch"
    /\ error' = "nested"
    /\ UNCHANGED <<backend_vars, input_vars, write_vars, se_after_func, mask_pushes, mask_pops>>

NextNested ==
    \/ Next
    \/ nested_call
    \/ nested_returns
    \/ nested_error_caught
    \/ nested_error_propagates

SpecNested == InitReg /\ [][NextNested]_vars

\* ------------------------------- collect_indices / write_indices on their own
\* Largest trace-variable reference of a value (0 = uninitialized).
MaxRef == 2
\* Largest number of fields of an aggregate.
MaxFields == 3

\* The value structures collect_indices and write_indices tell apart: flat
\* JIT arrays, differentiable arrays, arrays of arrays, plain values, and
\* aggregates of these (an aggregate may hold an aggregate).
FlatArrays == {Jit(r, <<>>) : r \in 0..MaxRef}
DiffArrays == {Diff(f) : f \in FlatArrays}
NestedArrays == {Nested(<<a, b>>) : a, b \in FlatArrays} \cup {Nested(<<a, b>>) : a, b \in DiffArrays}
Fields == FlatArrays \cup DiffArrays \cup {Plain}
Aggregates == UNION {{Struct(fs) : fs \in [1..n -> Fields]} : n \in 1..MaxFields}
NestedAggregates == {Struct(<<n, Struct(<<f, Plain>>)>>) : n \in NestedArrays, f \in FlatArrays}
Values == Fields \cup NestedArrays \cup Aggregates \cup NestedAggregates

\* A freshly constructed value of the same structure: every JIT leaf holds
\* the zero reference.
RECURSIVE Blank(_)
Blank(v) == IF v.kind = "jit" THEN [v EXCEPT !.index = 0]
            ELSE [v EXCEPT !.kids = [k \in 1..Len(v.kids) |-> Blank(v.kids[k])]]

\* One value is collected into an empty list, and the list is then written
\* from offset 0 into a fresh value of the same structure.
InitIdx ==
    /\ \E v \in Values : args = <<v>> /\ result = Blank(v)
    /\ indices_in = <<>>
    /\ offset = 0 /\ oob = FALSE
    /\ pc = "idx_start"
    /\ Backend = "CUDA" /\ ResultType = "void"
    /\ registry = [id \in 1..MaxId |-> FALSE]
    /\ side_effects = InitSE /\ prefix = <<OuterLabel>> /\ flag = 0
    /\ self = <<>> /\ mask = <<>> /\ mask_stack = <<>>
    /\ vcalls = <<>> /\ var_counter = MaxRef
    /\ n_inst_max = 0 /\ n_inst_actual = 0 /\ inst = 0
    /\ i = 0 /\ j = 0 /\ se_count = <<>> /\ indices_out_all = <<>>
    /\ flag_before = 0 /\ label = OuterLabel /\ tmp = Plain
    /\ error = "none"
    /\ entry = [side_effects |-> side_effects, prefix |-> prefix,
                mask_stack |-> mask_stack, flag |-> flag, registry |-> registry]
    /\ calls = <<>> /\ se_after_func = <<>>
    /\ mask_pushes = 0 /\ mask_pops = 0
    /\ nested = [frames |-> <<>>, made |-> 0]

idx_frame == <<backend_vars, ResultType, self, mask, args, entry, n_inst_max, n_inst_actual,
               inst, i, j, se_count, indices_out_all, flag_before, label, tmp,
               ghost_vars, nested>>

\* collect_indices(indices, value); it raises on an uninitialized leaf.
collect_value ==
    /\ pc = "idx_start"
    /\ LET c == collect_indices([ok |-> TRUE, idx |-> indices_in], args[1])
       IN  /\ indices_in' = c.idx
           /\ pc' = IF c.ok THEN "idx_collected" ELSE "idx_raised"
           /\ error' = IF c.ok THEN error ELSE "uninitialized"
    /\ UNCHANGED <<idx_frame, result, write_vars>>

\* uint32_t offset = 0; write_indices(indices, value, offset)
write_value ==
    /\ pc = "idx_collected"
    /\ LET w == write_indices(indices_in, result, [offset |-> 0, oob |-> FALSE])
       IN  /\ result' = w.value
           /\ offset' = w.offset
           /\ oob' = w.oob
    /\ pc' = "idx_written"
    /\ UNCHANGED <<idx_frame, indices_in, error>>

NextIdx ==
    \/ collect_value
    \/ write_value

SpecIdx == InitIdx /\ [][NextIdx]_vars

\* ------------------------------------------------------------- properties
\* The JIT leaves of a value, in traversal order.
RECURSIVE Leaves(_)
RECURSIVE LeavesOfEntries(_, _)
LeavesOfEntries(entries, k) ==
    IF k > Len(entries) THEN <<>> ELSE Leaves(entries[k]) \o LeavesOfEntries(entries, k + 1)
Leaves(v) == IF v.kind = "jit" THEN <<v>> ELSE LeavesOfEntries(v.kids, 1)

LiveIds == {id \in 1..MaxId : registry[id]}
MultiInstance == n_inst_actual >= 2 /\ Len(self) > 0
SingleInstance == n_inst_actual = 1 /\ Len(self) > 0
Exited == pc \in {"done", "error"}
InIteration == pc \in {"try_flag", "try_mask", "try_func", "in_func", "try_collect",
                       "iter_end", "catch"}

\* C1: in the recorder (two or more live implementations), when an error
\* raised while a branch was being recorded has left record_call, the
\* side-effect count is the one read at call entry (count[0]), whatever the
\* earlier, completed branches had scheduled.
C1_RollbackToEntry ==
    (MultiInstance /\ pc = "error" /\ error = "branch")
        => /\ side_effects = se_count[1]
           /\ side_effects = entry.side_effects

\* A branch failed after an earlier branch of the same call had completed
\* and had scheduled side effects of its own.
C1_Witness ==
    /\ MultiInstance /\ pc = "error" /\ error = "branch"
    /\ j >= 2 /\ se_count[2] > se_count[1]

\* C2 (as stated): with no implementation registered, or every selector
\* null, or the active mask false in every lane, the call returns a
\* zero-filled result, the callback is never invoked and no jump-table node
\* is created.
ZeroFilled(v, n) == \A p \in 1..Len(Leaves(v)) :
                       Leaves(v)[p].index # 0 /\ Leaves(v)[p].data = Zeros(n)

C2_AsStated ==
    (pc # "call" /\ (\/ n_inst_actual = 0
                     \/ \A l \in 1..Len(self) : self[l] = 0
                     \/ \A l \in 1..Len(self) : ~mask[l]))
        => /\ calls = <<>>
           /\ vcalls = <<>>
           /\ pc = "done" => ZeroFilled(result, Len(self))

\* C2 (amended): with no implementation registered, or a selector of zero
\* lanes, the call returns at once with a zero-filled result of that lane
\* count, the callback is never invoked and no jump-table node is created.
C2_ZeroResult ==
    (pc # "call" /\ (n_inst_actual = 0 \/ Len(self) = 0))
        => /\ calls = <<>>
           /\ vcalls = <<>>
           /\ pc = "done"
           /\ error = "none"
           /\ ZeroFilled(result, Len(self))

\* Live implementations, a non-void Result, and a selector with no lane.
C2_Witness ==
    /\ pc = "done" /\ Len(self) = 0 /\ n_inst_actual >= 2
    /\ ResultType = "struct" /\ calls = <<>>

\* C3: with exactly one live implementation and at least one lane, the
\* callback is invoked once, on that implementation, with
\* (active mask AND selector non-null) in the mask slot; no jump-table node
\* is created; a non-void result holds, per lane, the callback's value where
\* that mask is true and zero elsewhere.
C3_FastPath ==
    SingleInstance =>
        /\ vcalls = <<>>
        /\ Len(calls) <= 1
        /\ \A c \in 1..Len(calls) :
              /\ calls[c].inst \in LiveIds
              /\ calls[c].mask = [l \in 1..Len(self) |-> mask[l] /\ self[l] # 0]
        /\ pc = "done" =>
              /\ Len(calls) = 1
              /\ Len(Leaves(result)) = NumLeaves(ResultType)
              /\ \A p \in 1..Len(Leaves(result)) : \A l \in 1..Len(self) :
                    Leaves(result)[p].data[l] =
                        IF mask[l] /\ self[l] # 0 THEN Leaves(tmp)[p].data[l] ELSE 0

\* The fast path returned an aggregate for two lanes: one with a null
\* selector and a true mask, one selected and active.
C3_Witness ==
    /\ SingleInstance /\ pc = "done" /\ ResultType = "struct"
    /\ Len(self) = 2 /\ self[1] = 0 /\ mask[1] /\ self[2] # 0 /\ mask[2]

\* The ids func was invoked on, in order of invocation.
CalledIds == [c \in 1..Len(calls) |-> calls[c].inst]

\* C4: in the recorder the callback is invoked on live ids only, in strictly
\* ascending id order (so at most once each); the jump-table node is created
\* only after every live id of 1..n_inst_max has been invoked, and a
\* successful call has created exactly one node, with implementation count
\* n_inst_actual.
C4_OncePerLiveIdAscending ==
    MultiInstance =>
        /\ \A c \in 1..Len(calls) : CalledIds[c] \in LiveIds
        /\ \A c, d \in 1..Len(calls) : c < d => CalledIds[c] < CalledIds[d]
        /\ Len(vcalls) <= 1
        /\ vcalls # <<>> =>
              /\ pc = "done"
              /\ {CalledIds[c] : c \in 1..Len(calls)} = LiveIds
              /\ Len(calls) = n_inst_actual
              /\ vcalls[1].n_inst = n_inst_actual
        /\ pc = "done" => Len(vcalls) = 1

\* A successful recording over a registry with a gap: ids 1 and 3 live, id 2
\* removed.
C4_Witness ==
    /\ MultiInstance /\ pc = "done" /\ Len(vcalls) = 1
    /\ registry[1] /\ ~registry[2] /\ registry[3]
    /\ CalledIds = <<1, 3>>

\* C5: on the mask-stack backend the mask stack at every exit of the call is
\* the stack at entry, every synthesized mask pushed is popped once, and no
\* pop is issued for a mask that was never pushed.
C5_MaskStackBalanced ==
    /\ mask_pops <= mask_pushes
    /\ (Backend = "LLVM" /\ Exited) =>
          /\ mask_stack = entry.mask_stack
          /\ mask_pops = mask_pushes

\* C6: the diagnostic-prefix stack at every exit of the call is the stack at
\* entry; inside an iteration it is the entry stack plus the one label of
\* that iteration, pushed for a live id only; between iterations it is the
\* entry stack.
C6_PrefixBalanced ==
    /\ Exited => prefix = entry.prefix
    /\ InIteration => /\ prefix = Append(entry.prefix, instance_label(j))
                      /\ i \in LiveIds
    /\ ~InIteration => prefix = entry.prefix

\* An error left the recorder from the second processed implementation.
C6_Witness ==
    /\ MultiInstance /\ pc = "error" /\ error = "branch" /\ j = 2
    /\ prefix = entry.prefix /\ label = instance_label(2)

\* C7: the postpone-side-effects flag at every exit of the call is the flag
\* at entry, and after each completed iteration it is the value saved at the
\* start of that iteration.
C7_FlagRestored ==
    /\ Exited => flag = entry.flag
    /\ (pc = "loop" /\ j >= 2) => flag = flag_before
    /\ pc = "loop" => flag = entry.flag

\* An iteration completed in a call entered with the flag clear.
C7_Witness ==
    /\ pc = "loop" /\ j >= 2 /\ entry.flag = 0 /\ flag = 0 /\ Len(calls) >= 1

\* C8: the side-effect count table handed to the jump-table constructor has
\* n_inst_actual + 1 entries; entry 0 is the count before any implementation
\* ran, entry j the count when the j-th invocation of the callback had
\* returned; the entries are non-decreasing.
C8_SideEffectCounts ==
    \A v \in 1..Len(vcalls) :
        /\ Len(vcalls[v].se_count) = n_inst_actual + 1
        /\ vcalls[v].se_count[1] = entry.side_effects
        /\ Len(se_after_func) = n_inst_actual
        /\ \A k \in 1..n_inst_actual : vcalls[v].se_count[k + 1] = se_after_func[k]
        /\ \A k \in 1..n_inst_actual : vcalls[v].se_count[k] <= vcalls[v].se_count[k + 1]

\* A node built over three implementations, the first and the last of which
\* scheduled side effects.
C8_Witness ==
    /\ Len(vcalls) = 1 /\ n_inst_actual = 3
    /\ vcalls[1].se_count[1] < vcalls[1].se_count[2]
    /\ vcalls[1].se_count[2] = vcalls[1].se_count[3]
    /\ vcalls[1].se_count[3] < vcalls[1].se_count[4]

\* C9: for a successful recording the output index table has
\* n_inst_actual * (outputs per call) entries and the output buffer has
\* (table length) / n_inst_actual entries, one per leaf of the Result; both
\* are 0 for a void Result.
C9_OutputTableShape ==
    \A v \in 1..Len(vcalls) :
        /\ Len(vcalls[v].indices_out_all) = n_inst_actual * NumLeaves(ResultType)
        /\ vcalls[v].n_out * n_inst_actual = Len(vcalls[v].indices_out_all)
        /\ vcalls[v].n_out = NumLeaves(ResultType)
        /\ ResultType = "void" => vcalls[v].n_out = 0 /\ vcalls[v].indices_out_all = <<>>

\* Three implementations each returned the two-leaf aggregate.
C9_Witness ==
    /\ Len(vcalls) = 1 /\ n_inst_actual = 3 /\ ResultType = "struct"
    /\ Len(vcalls[1].indices_out_all) = 6 /\ vcalls[1].n_out = 2

\* Some JIT leaf of the arguments holds the zero reference.
HasUninitializedLeaf == \E a \in 1..Len(args) : \E p \in 1..Len(Leaves(args[a])) :
                           Leaves(args[a])[p].index = 0

\* C10: in the recorder, an argument leaf with the zero reference makes the
\* call fail with the uninitialized-argument error before the callback is
\* invoked for any implementation: nothing was pushed, the flag and the
\* side-effect count are unchanged and no jump-table node exists.
C10_UninitializedArgument ==
    (MultiInstance /\ HasUninitializedLeaf /\ pc \notin {"call", "impl"})
        => /\ pc = "error"
           /\ error = "uninitialized"
           /\ calls = <<>>
           /\ prefix = entry.prefix
           /\ mask_stack = entry.mask_stack
           /\ mask_pushes = 0 /\ mask_pops = 0
           /\ flag = entry.flag
           /\ side_effects = entry.side_effects
           /\ vcalls = <<>>

\* The zero reference sat inside a differentiable array of an aggregate,
\* behind an initialized argument.
C10_Witness ==
    /\ MultiInstance /\ pc = "error" /\ error = "uninitialized"
    /\ Len(args) = 2 /\ args[2].kind = "struct"

\* C11: a recording over two or more implementations is all-or-nothing: once
\* a branch has raised, the error is on its way out of the call (and stays
\* the error the call ends with), no jump-table node exists, the callback is
\* not invoked again, and no result is returned.
C11_AllOrNothing ==
    (MultiInstance /\ error = "branch") =>
        /\ pc \in {"catch", "error"}
        /\ vcalls = <<>>
        /\ Len(calls) \in {j - 1, j}
        /\ \A c \in 1..Len(calls) : calls[c].inst <= i
        /\ result = DefaultResult(ResultType)

\* The second of three implementations raised after the first had completed.
C11_Witness ==
    /\ MultiInstance /\ pc = "error" /\ error = "branch"
    /\ n_inst_actual = 3 /\ Len(calls) = 2 /\ j = 2 /\ vcalls = <<>>

\* C14: in a successful recording with a non-void Result, write_indices
\* starts at slot 0 of the output buffer, puts slot p into the p-th leaf of
\* the result, never reads at or past the end, and ends with the cursor at
\* the buffer length.
C14_WriteExhaustsBuffer ==
    (MultiInstance /\ pc = "done" /\ ResultType # "void") =>
        /\ ~oob
        /\ offset = Len(vcalls[1].indices_out)
        /\ Len(Leaves(result)) = Len(vcalls[1].indices_out)
        /\ \A p \in 1..Len(Leaves(result)) :
              Leaves(result)[p].index = vcalls[1].indices_out[p]

\* The two-leaf aggregate was filled from a two-slot buffer.
C14_Witness ==
    /\ MultiInstance /\ pc = "done" /\ ResultType = "struct"
    /\ offset = 2 /\ Len(vcalls[1].indices_out) = 2
    /\ Leaves(result)[1].index # Leaves(result)[2].index

\* C15: every invocation the recorder makes hands the callback the
\* always-true mask in the mask slot, for void and non-void results alike,
\* whatever active mask the caller passed.
C15_CallbackMaskAllTrue ==
    MultiInstance => \A c \in 1..Len(calls) : calls[c].mask = AllTrue(Len(self))

\* The mask on top of the stack when the call was entered (all lanes true
\* when there was none).
EntryExternalMask ==
    IF entry.mask_stack = <<>> THEN AllTrue(Len(self))
    ELSE entry.mask_stack[Len(entry.mask_stack)].data

\* C16: the selector of the jump-table node is, per lane, the original
\* selector where the active mask and the mask that was on top of the stack
\* at call entry are both true, and 0 elsewhere; when the mask is peeked the
\* top of the stack is not a mask synthesized for an iteration.
C16_SelectorMasked ==
    /\ \A v \in 1..Len(vcalls) :
          vcalls[v].self = [l \in 1..Len(self) |->
                               IF mask[l] /\ EntryExternalMask[l] THEN self[l] ELSE 0]
    /\ (pc = "loop" /\ i > n_inst_max) =>
          \/ mask_stack = <<>>
          \/ mask_stack[Len(mask_stack)].origin = "external"

\* Two selected, active lanes on the mask-stack backend, the second one
\* switched off by the caller's mask only.
C16_Witness ==
    /\ Len(vcalls) = 1 /\ Backend = "LLVM" /\ entry.mask_stack # <<>>
    /\ self = <<1, 1>> /\ mask = <<TRUE, TRUE>>
    /\ vcalls[1].self = <<1, 0>>

\* C17: while the callback runs for the j-th processed implementation, the
\* postpone flag is set, the top of the prefix stack is the call-site label
\* with the running count j, on the mask-stack backend the top of the mask
\* stack is the always-true mask synthesized for the iteration, and
\* count[j - 1] holds the count read after the previous branch (the entry
\* count for the first).
C17_InsideCallback ==
    pc = "in_func" =>
        /\ flag = 1
        /\ j = Len(calls)
        /\ calls[Len(calls)].j = j
        /\ prefix[Len(prefix)] = [site |-> "VCall", instance |-> j]
        /\ Backend = "LLVM" =>
              /\ mask_stack # <<>>
              /\ mask_stack[Len(mask_stack)].origin = "vcall"
              /\ mask_stack[Len(mask_stack)].data = AllTrue(Len(self))
        /\ se_count[j] = IF j = 1 THEN entry.side_effects ELSE se_after_func[j - 1]

\* The callback runs for registry id 3, the second implementation processed,
\* in a call entered with the flag clear.
C17_Witness ==
    /\ pc = "in_func" /\ i = 3 /\ j = 2 /\ Backend = "LLVM" /\ entry.flag = 0
    /\ se_count[2] > se_count[1]

\* The references of the JIT leaves of a value, in traversal order.
LeafRefs(v) == [p \in 1..Len(Leaves(v)) |-> Leaves(v)[p].index]

\* C12: for a value whose JIT leaves all hold non-zero references, writing
\* the collected list from offset 0 into a fresh value of the same structure
\* puts every reference back into the leaf it was collected from.
C12_RoundTrip ==
    pc = "idx_written" =>
        /\ result = args[1]
        /\ \A p \in 1..Len(Leaves(args[1])) : Leaves(args[1])[p].index # 0
        /\ ~oob

\* An aggregate of a differentiable array, a plain value and a flat array,
\* with two different references, went through the round trip.
C12_Witness ==
    /\ pc = "idx_written"
    /\ args[1] = Struct(<<Diff(Jit(2, <<>>)), Plain, Jit(1, <<>>)>>)
    /\ result = args[1]

\* C13: for a value without uninitialized leaves the collected list is the
\* references of its JIT leaves in traversal order, duplicates kept and
\* nothing for plain values; a value without JIT leaves leaves the list and
\* the writer's cursor where they were; the writer consumes one entry per
\* leaf. A value with an uninitialized leaf is never written.
C13_OnePerLeaf ==
    /\ pc \in {"idx_collected", "idx_written"} =>
          /\ indices_in = LeafRefs(args[1])
          /\ Len(indices_in) = Len(Leaves(args[1]))
          /\ Leaves(args[1]) = <<>> => indices_in = <<>>
    /\ pc = "idx_written" =>
          /\ offset = Len(Leaves(args[1]))
          /\ Leaves(args[1]) = <<>> => offset = 0 /\ result = args[1]
    /\ pc = "idx_raised" => \E p \in 1..Len(Leaves(args[1])) : Leaves(args[1])[p].index = 0

\* An aggregate of two traced fields holding the same reference and one
\* plain field gave a list of length 2.
C13_Witness ==
    /\ pc = "idx_collected"
    /\ args[1] = Struct(<<Jit(1, <<>>), Jit(1, <<>>), Plain>>)
    /\ indices_in = <<1, 1>>

\* C18: the recorder loop processes exactly n_inst_actual implementations:
\* at every write of se_count[j] the index is between 1 and n_inst_actual,
\* no write falls outside the table, and when the loop ends every entry
\* 1..n_inst_actual has been written.
C18_LoopCountMatches ==
    /\ pc = "iter_end" => 1 <= j /\ j <= n_inst_actual
    /\ pc # "undefined"
    /\ (pc = "loop" /\ i > n_inst_max) => j - 1 = n_inst_actual

\* C19: when a record_call made by a callback of the multi-instance recorder
\* has exited (normally or by an error), the outer iteration finds the
\* postpone-side-effects flag set, the label stack and the mask stack as
\* they were just before the nested call, and a side-effect count not below
\* its own count[j-1]; when the nested error has propagated, the outer call
\* has rolled back to its own count[0].
C19_NestedLeavesOuterIntact ==
    /\ (nested.frames # <<>> /\ pc \in {"done", "error"}) =>
          LET f == nested.frames[Len(nested.frames)]
          IN  /\ flag = 1
              /\ prefix = f.prefix
              /\ mask_stack = f.mask_stack
              /\ side_effects >= f.se_count[f.j]
    /\ (nested.frames = <<>> /\ pc = "error" /\ error = "nested") => side_effects = se_count[1]

====
